---------------------------- MODULE Spec2Model ----------------------------
(***************************************************************************)
(* A model of the spectral acquisition pipeline of radio-scan-demo:        *)
(*   - src/src/utils/spectrum.py : gain correction, stitching, smoothing   *)
(*     and the two sweep drivers;                                          *)
(*   - src/src/utils/device.py   : scan_frequency_range;                   *)
(*   - src/tests/scan-freq.py    : detect_peaks_in_spectrum.               *)
(*                                                                         *)
(* Frequencies and dB values are integers.  A float that the code obtains  *)
(* by a division is an exact fraction [n, d]; d = 0 stands for the IEEE    *)
(* values the division by zero yields (n = 1: +inf, n = -1: -inf, n = 0:   *)
(* nan).  Rounding of float32/float64 is not modelled.                     *)
(* Sequences are 1-based: row i of the code is row i+1 here.               *)
(***************************************************************************)
EXTENDS Integers, Sequences, FiniteSets, TLC

VARIABLES
    \* ---- stitching (calculate_gain_corrections, stitch_segments_...) ----
    segments,           \* argument: the PSD rows, dB values
    freq_arrays,        \* argument: the frequency rows
    gain_corrections,   \* the array calculate_gain_corrections returned
    current_freqs,      \* local of the stitch loop
    current_psd,        \* local of the stitch loop
    st_i,               \* the stitch loop's index (the row merged next)
    st_pc,              \* "input" | "gained" | "loop" | "returned" | "raised"
    st_exc,             \* the exception that ended the call, or "none"
    \* ---- sweeps (scan_and_stitch_spectrum*, scan_frequency_range) ----
    sw_variant,         \* which driver runs
    scan_config,        \* start_frequency, end_frequency, step_frequency, fft_size
    sw_pc,              \* "call" | "loop" | "post" | "returned" | "raised"
    num_steps,          \* local num_steps
    sw_range,           \* the values of range(start, end + 1, step) still to visit
    sw_i,               \* enumerate's index i / number of loop iterations begun
    arrays_segments,    \* arrays['segments']
    arrays_freq_arrays, \* arrays['freq_arrays']
    tuned,              \* the frequencies handed to set_frequency, in order
    captured,           \* the frequencies at which capture was invoked, in order
    is_connected,       \* pluto.is_connected
    sample_rate,        \* pluto_config['sample_rate'] / pluto.get_sample_rate()
    current_freq,       \* local of scan_frequency_range's while loop
    scan_results,       \* local of scan_frequency_range: the frequencies recorded
    sw_result,          \* what the driver returned or raised, and what it printed
    \* ---- peak detection (detect_peaks_in_spectrum) ----
    FFT_CONFIG,         \* the configuration dictionary the function reads
    power_spectrum,     \* the dB array the peak search runs on
    pk_args,            \* center_freq, sample_rate, bandwidth
    pk_pc,              \* "idle" | "call" | "returned"
    peaks,              \* the list the function returned
    \* ---- spectral estimation (capture_and_process_segment, process_fft) ----
    est_path,           \* "sweep": capture_and_process_segment, "live": process_fft
    est_args,           \* fft_size, sample_rate, center_freq
    iq_samples,         \* the samples handed to the estimator
    iq_buffer,          \* arrays['iq_buffer'] / self.iq_buffer after the copy
    est_result,         \* lengths and frequency axis of what was returned
    est_pc,             \* "idle" | "call" | "returned" | "raised"
    est_exc,            \* the exception that ended the call, or "none"
    rx_lo,              \* the frequency the receiver is tuned to
    captured_at,        \* the rx_lo at which iq_samples were captured
    \* ---- final smoothing (apply_final_smoothing) ----
    sm_psd,             \* argument psd
    sm_out,             \* the curve returned
    sm_pc,              \* "idle" | "call" | "returned"
    \* ---- streaming server (main.py, main_demo.py) ----
    streaming_enabled,  \* global streaming_enabled
    pluto_sdr,          \* global pluto_sdr: "None" or "device"
    spectrum_processor, \* global spectrum_processor: "None" or "processor"
    active_connections, \* the keys of active_connections, in insertion order
    streaming_task,     \* "None", or where the task the global names stands:
                        \* "start" | "sleep" | "send" | "done"
    cancel_requested,   \* cancel() was called and its CancelledError is pending
    send_list,          \* the task's list(active_connections.keys()) still to serve
    disconnected,       \* the task's local list disconnected
    sockets,            \* each websocket: "new" | "open" | "closed"
    last_toggle,        \* argument of the last toggle_streaming call, or "none"
    frame_parity,       \* number of frames delivered so far, modulo 2
    tasks_alive,        \* spectrum_streaming_task objects created and not finished
    cancel_seen,        \* cancel() was called on the task streaming_task names
    open_devices,       \* PlutoSDR connections opened and not yet disconnected
    last_capture,       \* parity of the captures the task made, result of the last
    \* ---- distance (calculate_distance, spectrum_streaming_task line 151) ----
    ds_path,            \* "calculate_distance" | "spectrum_streaming_task"
    peak_rssi,          \* dBm
    rssi_ref,           \* dBm (RSSI_REF in the streaming task)
    distance,           \* the value computed, a fraction
    ds_pc,              \* "idle" | "call" | "returned"
    \* ---- PlutoSDR (pluto.py); is_connected is the variable of the sweeps ----
    sdr,                \* self.sdr: NoSdr (None) or the attributes of the handle
    pl_op,              \* the method called last
    pl_ret              \* what it returned

stitchVars == <<segments, freq_arrays, gain_corrections, current_freqs,
                current_psd, st_i, st_pc, st_exc>>
sweepVars == <<sw_variant, scan_config, sw_pc, num_steps, sw_range, sw_i,
               arrays_segments, arrays_freq_arrays, tuned, captured,
               is_connected, sample_rate, current_freq, scan_results,
               sw_result>>
peakVars == <<FFT_CONFIG, power_spectrum, pk_args, pk_pc, peaks>>
estVars == <<est_path, est_args, iq_samples, iq_buffer, est_result, est_pc, est_exc,
             rx_lo, captured_at>>
smoothVars == <<sm_psd, sm_out, sm_pc>>
serverVars == <<streaming_enabled, pluto_sdr, spectrum_processor,
                active_connections, streaming_task, cancel_requested, send_list,
                disconnected, sockets, last_toggle, frame_parity, tasks_alive,
                cancel_seen, open_devices, last_capture>>
distVars == <<ds_path, peak_rssi, rssi_ref, distance, ds_pc>>
plutoVars == <<sdr, pl_op, pl_ret>>
restVars == <<estVars, smoothVars, serverVars, distVars, plutoVars>>
vars == <<stitchVars, sweepVars, peakVars, restVars>>

(***************************************************************************)
(* Bounds of the model.                                                    *)
(***************************************************************************)
MaxSegs == 3          \* segments handed to the stitcher
MaxFreq == 4          \* a stitched row starts at a frequency in 0..MaxFreq
MaxSweepFreq == 3     \* start and end frequency of a sweep range over 0..MaxSweepFreq
MaxTunes == 3         \* cap on loop iterations of a scan that never advances
MaxLen == 6           \* longest power spectrum given to the peak search
FftSizes == {2, 3}    \* fft_size of the stitched rows (an even and an odd one)
BinSteps == {1, 2}    \* spacing sample_rate / fft_size of a row's bins
PsdVals == {-2, 0}    \* dB values of a PSD bin

(***************************************************************************)
(* Generic helpers.                                                        *)
(***************************************************************************)
Last(s) == s[Len(s)]

Range(s) == {s[j] : j \in 1..Len(s)}

Min2(a, b) == IF a <= b THEN a ELSE b

Max2(a, b) == IF a >= b THEN a ELSE b

Abs(a) == IF a >= 0 THEN a ELSE -a

Sign(a) == IF a > 0 THEN 1 ELSE IF a < 0 THEN -1 ELSE 0

\* Python's int(a / b) for b > 0: truncation towards zero.
TruncDiv(a, b) == IF a >= 0 THEN a \div b ELSE -((-a) \div b)

RECURSIVE SumSeq(_)
SumSeq(s) == IF s = <<>> THEN 0 ELSE s[1] + SumSeq(Tail(s))

\* All sequences of length n over S.
SeqsOfLen(S, n) == [1..n -> S]

(***************************************************************************)
(* Floats as fractions.                                                    *)
(***************************************************************************)
Norm(n, d) == IF d > 0 THEN [n |-> n, d |-> d]
              ELSE IF d < 0 THEN [n |-> -n, d |-> -d]
              ELSE [n |-> Sign(n), d |-> 0]

One == [n |-> 1, d |-> 1]

NaN == [n |-> 0, d |-> 0]

FromInt(v) == [n |-> v, d |-> 1]

IsFinite(a) == a.d > 0

IsNaN(a) == a.d = 0 /\ a.n = 0

\* IEEE ==: nan equals nothing, an infinity equals itself.
RatEq(a, b) == IF a.d = 0 \/ b.d = 0
               THEN a.d = 0 /\ b.d = 0 /\ a.n = b.n /\ a.n # 0
               ELSE a.n * b.d = b.n * a.d

RatLess(a, b) == IF a.d = 0 /\ b.d = 0 THEN a.n < b.n
                 ELSE a.n * b.d < b.n * a.d

RatAdd(a, b) == IF a.d = 0 /\ b.d = 0
                THEN (IF a.n = b.n THEN a ELSE NaN)
                ELSE Norm(a.n * b.d + b.n * a.d, a.d * b.d)

RatMulInt(v, r) == Norm(v * r.n, r.d)

RatDivInt(r, k) == Norm(r.n, r.d * k)

ToRat(row) == [j \in 1..Len(row) |-> FromInt(row[j])]

RECURSIVE InsertSorted(_, _)
InsertSorted(x, s) ==
    IF s = <<>> THEN <<x>>
    ELSE IF RatLess(s[1], x) THEN <<s[1]>> \o InsertSorted(x, Tail(s))
    ELSE <<x>> \o s

RECURSIVE SortRat(_)
SortRat(s) == IF s = <<>> THEN <<>> ELSE InsertSorted(s[1], SortRat(Tail(s)))

\* numpy.median of a non-empty row: nan if any element is nan, else the middle
\* element of the sorted row, or the mean of the two middle ones.
Median(row) ==
    IF \E j \in 1..Len(row) : IsNaN(row[j]) THEN NaN
    ELSE LET s == SortRat(row)
             n == Len(row)
         IN  IF n % 2 = 1 THEN s[(n + 1) \div 2]
             ELSE RatDivInt(RatAdd(s[n \div 2], s[n \div 2 + 1]), 2)

(***************************************************************************)
(* calculate_gain_corrections (CPU branch; the GPU branch is the same      *)
(* arithmetic).  gain_corrections = ones; for i >= 1:                      *)
(*     gain_corrections[i] = median(segments[0]) / median(segments[i]).    *)
(* The medians are numpy float32 scalars: a zero divisor gives inf or nan  *)
(* with a warning, not an exception.                                       *)
(***************************************************************************)
RatDiv(a, b) == Norm(a.n * b.d, a.d * b.n)

GainRatio_inverted(reference_level, current_level) ==
    RatDiv(current_level, reference_level)

GainRatio(reference_level, current_level) == RatDiv(reference_level, current_level)

calculate_gain_corrections(segs) ==
    LET reference_level == Median(ToRat(segs[1]))
    IN  [i \in 1..Len(segs) |->
            IF i = 1 THEN One
            ELSE GainRatio(reference_level, Median(ToRat(segs[i])))]

(***************************************************************************)
(* stitch_segments_with_overlap_handling (CPU branch).                     *)
(***************************************************************************)
\* numpy.searchsorted(a, v) with the default side='left' on a sorted row:
\* the 0-based index of the first element >= v.
searchsorted(a, v) == Cardinality({j \in 1..Len(a) : a[j] < v})

\* next_psd = segments[i] * gain_corrections[i]
CorrectedPsd(row, g) == [j \in 1..Len(row) |-> RatMulInt(row[j], g)]

\* The 1-based index from which the loop body appends next_*; Len + 1 when it
\* appends nothing.
AppendFrom(cur_freqs, next_freqs) ==
    IF Last(cur_freqs) < next_freqs[1] THEN 1
    ELSE LET overlap_start == searchsorted(next_freqs, Last(cur_freqs))
         IN  IF overlap_start < Len(next_freqs) THEN overlap_start + 1
             ELSE Len(next_freqs) + 1

MergeFreqs_whole(cur_freqs, next_freqs) == cur_freqs \o next_freqs

MergeFreqs(cur_freqs, next_freqs) ==
    cur_freqs \o SubSeq(next_freqs, AppendFrom(cur_freqs, next_freqs), Len(next_freqs))

MergePsd(cur_freqs, cur_psd, next_freqs, next_psd) ==
    cur_psd \o SubSeq(next_psd, AppendFrom(cur_freqs, next_freqs), Len(next_psd))

\* The whole loop, rows i..Len(segs), as the sweep drivers call it.
RECURSIVE StitchFrom(_, _, _, _, _, _)
StitchFrom(segs, freqs, gains, i, cur_freqs, cur_psd) ==
    IF i > Len(segs) THEN [freqs |-> cur_freqs, psd |-> cur_psd]
    ELSE StitchFrom(segs, freqs, gains, i + 1,
                    MergeFreqs(cur_freqs, freqs[i]),
                    MergePsd(cur_freqs, cur_psd, freqs[i],
                             CorrectedPsd(segs[i], gains[i])))

stitch_segments_with_overlap_handling(segs, freqs, gains) ==
    StitchFrom(segs, freqs, gains, 2, freqs[1], ToRat(segs[1]))


\* What a driver hands back: kind "arrays" (a tuple of two arrays), "dict"
\* (scan_results) or "raised" (an exception reaches the caller); log is the
\* message the driver printed, if any.
Result(kind, freqs, psd, keys, exc, log) ==
    [kind |-> kind, freqs |-> freqs, psd |-> psd, keys |-> keys,
     exc |-> exc, log |-> log]

NoResult == Result("none", <<>>, <<>>, {}, "none", "")

EmptyArrays(log) == Result("arrays", <<>>, <<>>, {}, "none", log)

Raised(exc) == Result("raised", <<>>, <<>>, {}, exc, "")

(***************************************************************************)
(* The states no driver of a component has left: each specification runs   *)
(* one component and keeps the others idle.                                *)
(***************************************************************************)
StitchIdle ==
    /\ segments = <<>> /\ freq_arrays = <<>> /\ gain_corrections = <<>>
    /\ current_freqs = <<>> /\ current_psd = <<>>
    /\ st_i = 0 /\ st_pc = "idle" /\ st_exc = "none"

SweepIdle ==
    /\ sw_variant = "idle"
    /\ scan_config = [start_frequency |-> 0, end_frequency |-> 0,
                      step_frequency |-> 0, fft_size |-> 0]
    /\ sw_pc = "idle" /\ num_steps = 0 /\ sw_range = <<>> /\ sw_i = 0
    /\ arrays_segments = <<>> /\ arrays_freq_arrays = <<>>
    /\ tuned = <<>> /\ captured = <<>> /\ is_connected = FALSE
    /\ sample_rate = 0 /\ current_freq = 0 /\ scan_results = {}
    /\ sw_result = NoResult

PeaksIdle ==
    /\ FFT_CONFIG = [min_peak_height |-> 0, peak_threshold_db |-> 0,
                     window_size_divisor |-> 1, min_window_size |-> 0,
                     max_peaks_per_band |-> 0]
    /\ power_spectrum = <<>>
    /\ pk_args = [center_freq |-> 0, sample_rate |-> 0, bandwidth |-> 0]
    /\ pk_pc = "idle" /\ peaks = <<>>

EstimateIdle ==
    /\ est_path = "idle"
    /\ est_args = [fft_size |-> 0, sample_rate |-> 0, center_freq |-> 0]
    /\ iq_samples = <<>> /\ iq_buffer = <<>>
    /\ est_result = [frequencies |-> <<>>, psd_bins |-> 0]
    /\ est_pc = "idle" /\ est_exc = "none"
    /\ rx_lo = 0 /\ captured_at = 0

SmoothIdle == sm_psd = <<>> /\ sm_out = <<>> /\ sm_pc = "idle"

MaxSockets == 3

Sockets == 1..MaxSockets

\* The module state of main.py / main_demo.py after import (lines 42-49), with
\* no websocket request received yet.
ServerIdle ==
    /\ streaming_enabled = FALSE
    /\ pluto_sdr = "None" /\ spectrum_processor = "None"
    /\ active_connections = <<>>
    /\ streaming_task = "None" /\ cancel_requested = FALSE
    /\ send_list = <<>> /\ disconnected = <<>>
    /\ sockets = [ws \in Sockets |-> "new"]
    /\ last_toggle = "none"
    /\ frame_parity = 0
    /\ tasks_alive = 0 /\ cancel_seen = FALSE
    /\ open_devices = 0
    /\ last_capture = [parity |-> 0, result |-> "none"]

DistanceIdle ==
    /\ ds_path = "idle" /\ peak_rssi = 0 /\ rssi_ref = 0
    /\ distance = One /\ ds_pc = "idle"

\* self.sdr = None
NoSdr == [none |-> TRUE, rx_lo |-> 0, sample_rate |-> 0, rx_buffer_size |-> 0]

\* A return value: True, False, None, or a number ("value") or a sample array
\* ("samples") of which val is the number or the length.
Ret(tag, val) == [tag |-> tag, val |-> val]

\* A PlutoSDR after __init__ (pluto.py 9-11), no method called yet.
PlutoIdle == sdr = NoSdr /\ pl_op = "__init__" /\ pl_ret = Ret("None", 0)

RestIdle == EstimateIdle /\ SmoothIdle /\ ServerIdle /\ DistanceIdle /\ PlutoIdle

CoreIdle == StitchIdle /\ SweepIdle /\ PeaksIdle

(***************************************************************************)
(* Stitching: a caller hands a list of equal-length rows, ordered by       *)
(* center frequency, to calculate_gain_corrections and then to             *)
(* stitch_segments_with_overlap_handling (spectrum.py 306-313).            *)
(* A row's axis is the one capture_and_process_segment builds:             *)
(* freq_start + j * freq_step.                                             *)
(***************************************************************************)
FreqRow(freq_start, freq_step, fft_size) ==
    [j \in 1..fft_size |-> freq_start + (j - 1) * freq_step]

StrictlyIncreasing(s) == \A j \in 1..(Len(s) - 1) : s[j] < s[j + 1]

StitchInput ==
    \E n \in 0..MaxSegs, fft_size \in FftSizes, freq_step \in BinSteps :
      \E starts \in SeqsOfLen(0..MaxFreq, n), rows \in SeqsOfLen(SeqsOfLen(PsdVals, fft_size), n) :
        /\ StrictlyIncreasing(starts)
        /\ segments = rows
        /\ freq_arrays = [i \in 1..n |-> FreqRow(starts[i], freq_step, fft_size)]
        /\ gain_corrections = <<>>
        /\ current_freqs = <<>> /\ current_psd = <<>>
        /\ st_i = 0 /\ st_pc = "input" /\ st_exc = "none"

\* calculate_gain_corrections(segments): segments[0] of an empty array raises
\* IndexError (line 179).
CallGain ==
    /\ st_pc = "input"
    /\ IF segments = <<>>
       THEN /\ st_pc' = "raised"
            /\ st_exc' = "calculate_gain_corrections: IndexError"
            /\ UNCHANGED gain_corrections
       ELSE /\ gain_corrections' = calculate_gain_corrections(segments)
            /\ st_pc' = "gained"
            /\ UNCHANGED st_exc
    /\ UNCHANGED <<segments, freq_arrays, current_freqs, current_psd, st_i>>
    /\ UNCHANGED <<sweepVars, peakVars, restVars>>

\* stitch_segments_with_overlap_handling on the empty list, whose only gain
\* array is the empty one: freq_arrays[0] raises IndexError (line 212).
StitchEmpty ==
    /\ st_pc = "input" /\ segments = <<>>
    /\ st_pc' = "raised"
    /\ st_exc' = "stitch_segments_with_overlap_handling: IndexError"
    /\ UNCHANGED <<segments, freq_arrays, gain_corrections, current_freqs,
                   current_psd, st_i>>
    /\ UNCHANGED <<sweepVars, peakVars, restVars>>

\* lines 212-213
StitchBegin ==
    /\ st_pc = "gained"
    /\ current_freqs' = freq_arrays[1]
    /\ current_psd' = ToRat(segments[1])
    /\ st_i' = 2
    /\ st_pc' = "loop"
    /\ UNCHANGED <<segments, freq_arrays, gain_corrections, st_exc>>
    /\ UNCHANGED <<sweepVars, peakVars, restVars>>

\* one iteration of the loop, lines 215-228
StitchStep ==
    /\ st_pc = "loop" /\ st_i <= Len(segments)
    /\ current_freqs' = MergeFreqs(current_freqs, freq_arrays[st_i])
    /\ current_psd' = MergePsd(current_freqs, current_psd, freq_arrays[st_i],
                               CorrectedPsd(segments[st_i], gain_corrections[st_i]))
    /\ st_i' = st_i + 1
    /\ UNCHANGED <<segments, freq_arrays, gain_corrections, st_pc, st_exc>>
    /\ UNCHANGED <<sweepVars, peakVars, restVars>>

\* line 230
StitchReturn ==
    /\ st_pc = "loop" /\ st_i > Len(segments)
    /\ st_pc' = "returned"
    /\ UNCHANGED <<segments, freq_arrays, gain_corrections, current_freqs,
                   current_psd, st_i, st_exc>>
    /\ UNCHANGED <<sweepVars, peakVars, restVars>>

InitStitch == StitchInput /\ SweepIdle /\ PeaksIdle /\ RestIdle

NextStitch == CallGain \/ StitchEmpty \/ StitchBegin \/ StitchStep \/ StitchReturn

SpecStitch == InitStitch /\ [][NextStitch]_vars


(***************************************************************************)
(* apply_final_smoothing(psd, kernel_size = 5): numpy.convolve(psd,        *)
(* ones(kernel_size) / kernel_size, mode='same') when the curve is longer  *)
(* than 2 * kernel_size, else the curve itself.  In mode 'same' output bin *)
(* m is the sum of the input bins m-2 .. m+2 that exist, divided by 5.     *)
(***************************************************************************)
kernel_size == 5

RECURSIVE RatSum(_)
RatSum(s) == IF s = <<>> THEN FromInt(0) ELSE RatAdd(s[1], RatSum(Tail(s)))

ConvolveSame(psd, k) ==
    [m \in 1..Len(psd) |->
        RatDivInt(RatSum(SubSeq(psd, Max2(1, m - k \div 2),
                                Min2(Len(psd), m + k \div 2))), k)]

apply_final_smoothing_always(psd) == ConvolveSame(psd, kernel_size)

apply_final_smoothing(psd) ==
    IF Len(psd) > kernel_size * 2 THEN ConvolveSame(psd, kernel_size) ELSE psd

(***************************************************************************)
(* The sweep drivers of spectrum.py and scan_frequency_range of device.py. *)
(***************************************************************************)
SweepVariants == {"scan_and_stitch_spectrum", "scan_and_stitch_spectrum_with_connection"}

SweepSteps == {0, 1, 2}        \* step_frequency

SweepFftSizes == {-1, 0, 2}    \* fft_size

SweepSampleRates == {2, 4}     \* sample_rate, a multiple of every positive fft_size

\* The values of Python's range(start, stop, step) for step > 0.
PyRange(start, stop, step) ==
    LET n == IF stop > start THEN (stop - start + step - 1) \div step ELSE 0
    IN  [k \in 1..n |-> start + (k - 1) * step]

\* num_steps = int((end_freq - start_freq) / step_freq) + 1  (lines 282, 356)
NumSteps(cfg) ==
    TruncDiv(cfg.end_frequency - cfg.start_frequency, cfg.step_frequency) + 1

\* The exception lines 279-287 (353-361) raise, or "none": the division by a
\* zero step, then numpy.zeros with a negative dimension in preallocate_arrays.
PrepareExc(cfg) ==
    IF cfg.step_frequency = 0 THEN "ZeroDivisionError"
    ELSE IF cfg.fft_size < 0 \/ NumSteps(cfg) < 0 THEN "ValueError"
    ELSE "none"

ZeroRow(fft_size) == [j \in 1..fft_size |-> 0]

\* The outcomes of pluto.capture_samples(fft_size): None, or an array of some
\* length.
CaptureOutcomes(fft_size) ==
    {[none |-> TRUE, len |-> 0]} \cup
    {[none |-> FALSE, len |-> n] : n \in {0, 1, Max2(fft_size, 0)}}

\* The exception capture_and_process_segment raises for a capture outcome, or
\* "none": None[:fft_size] is a TypeError (line 77); an array that is neither
\* fft_size long nor broadcastable (length 1) cannot be copied into iq_buffer
\* (line 107); numpy.fft.fft refuses an empty buffer (line 113).
SegmentExc(samples, fft_size) ==
    IF samples.none THEN "TypeError"
    ELSE LET n == Min2(samples.len, fft_size)
         IN  IF n # fft_size /\ n # 1 THEN "ValueError"
             ELSE IF fft_size = 0 THEN "ValueError"
             ELSE "none"

\* The frequency row capture_and_process_segment returns (lines 124-126).
SegmentFreqs(center_freq, rate, fft_size) ==
    FreqRow(center_freq - rate \div 2, rate \div fft_size, fft_size)

\* Lines 306-316 (378-388): the exception they raise, or the final arrays.
PostExc(rows) == IF rows = <<>> THEN "IndexError" ELSE "none"

PostArrays(rows, freq_rows) ==
    LET st == stitch_segments_with_overlap_handling(
                  rows, freq_rows, calculate_gain_corrections(rows))
    IN  Result("arrays", st.freqs, apply_final_smoothing(st.psd), {}, "none", "")

\* How a driver ends on exception exc: scan_and_stitch_spectrum lets it pass
\* (after the finally clause), the _with_connection variant prints it and
\* returns two empty arrays (lines 400-402).
EndOnException(variant, exc) ==
    IF variant = "scan_and_stitch_spectrum" THEN Raised(exc)
    ELSE EmptyArrays("Error in spectrum scan")

SweepInput ==
    \E v \in SweepVariants, s \in 0..MaxSweepFreq, e \in 0..MaxSweepFreq,
       st \in SweepSteps, k \in SweepFftSizes, r \in SweepSampleRates,
       c \in BOOLEAN :
        /\ sw_variant = v
        /\ scan_config = [start_frequency |-> s, end_frequency |-> e,
                          step_frequency |-> st, fft_size |-> k]
        /\ sample_rate = r
        \* scan_and_stitch_spectrum connects itself; the other is handed a device
        /\ is_connected = (c /\ v # "scan_and_stitch_spectrum")
        /\ (v = "scan_and_stitch_spectrum" => c)
        /\ sw_pc = "call" /\ num_steps = 0 /\ sw_range = <<>> /\ sw_i = 0
        /\ arrays_segments = <<>> /\ arrays_freq_arrays = <<>>
        /\ tuned = <<>> /\ captured = <<>>
        /\ current_freq = 0 /\ scan_results = {}
        /\ sw_result = NoResult

\* pluto.is_connected when a driver ends after it prepared or ran the sweep:
\* scan_and_stitch_spectrum disconnects in its finally clause (lines 328-332,
\* device.py 88-96, pluto.py 33-42); the _with_connection variant has no
\* connect or disconnect call.
AfterExit_connected(variant, connected) == connected

AfterExit_disconnected(variant, connected) == FALSE

AfterExit(variant, connected) ==
    IF variant = "scan_and_stitch_spectrum" THEN FALSE ELSE connected

\* Lines 279-287 / 353-361 with the device connected.
SweepPrepare(connected_after) ==
    LET exc == PrepareExc(scan_config)
    IN  IF exc # "none"
        THEN /\ sw_result' = EndOnException(sw_variant, exc)
             /\ sw_pc' = IF sw_variant = "scan_and_stitch_spectrum"
                         THEN "raised" ELSE "returned"
             /\ is_connected' = connected_after
             /\ UNCHANGED <<num_steps, sw_range, arrays_segments, arrays_freq_arrays>>
        ELSE /\ num_steps' = NumSteps(scan_config)
             /\ arrays_segments' =
                    [i \in 1..NumSteps(scan_config) |-> ZeroRow(scan_config.fft_size)]
             /\ arrays_freq_arrays' =
                    [i \in 1..NumSteps(scan_config) |-> ZeroRow(scan_config.fft_size)]
             /\ sw_range' = PyRange(scan_config.start_frequency,
                                    scan_config.end_frequency + 1,
                                    scan_config.step_frequency)
             /\ sw_pc' = "loop"
             /\ is_connected' = TRUE
             /\ UNCHANGED sw_result

\* scan_and_stitch_spectrum, lines 263-287: connect, configure, prepare.
SweepCall ==
    /\ sw_pc = "call" /\ sw_variant = "scan_and_stitch_spectrum"
    /\ \E connect_ok \in BOOLEAN, configs_ok \in BOOLEAN :
          IF ~connect_ok
          THEN /\ sw_result' = EmptyArrays("Failed to connect to PlutoSDR")
               /\ sw_pc' = "returned"
               /\ UNCHANGED <<is_connected, num_steps, sw_range,
                              arrays_segments, arrays_freq_arrays>>
          ELSE IF ~configs_ok
          THEN /\ sw_result' = EmptyArrays("Failed to configure PlutoSDR")
               /\ sw_pc' = "returned"
               /\ is_connected' = FALSE
               /\ UNCHANGED <<num_steps, sw_range, arrays_segments, arrays_freq_arrays>>
          ELSE SweepPrepare(AfterExit(sw_variant, TRUE))
    /\ UNCHANGED <<sw_variant, scan_config, sw_i, tuned, captured, sample_rate,
                   current_freq, scan_results>>
    /\ UNCHANGED <<stitchVars, peakVars, restVars>>

\* scan_and_stitch_spectrum_with_connection, lines 348-361.
SweepCallWithConnection ==
    /\ sw_pc = "call" /\ sw_variant = "scan_and_stitch_spectrum_with_connection"
    /\ IF ~is_connected
       THEN /\ sw_result' = EmptyArrays("")
            /\ sw_pc' = "returned"
            /\ UNCHANGED <<is_connected, num_steps, sw_range,
                           arrays_segments, arrays_freq_arrays>>
       ELSE SweepPrepare(AfterExit(sw_variant, is_connected))
    /\ UNCHANGED <<sw_variant, scan_config, sw_i, tuned, captured, sample_rate,
                   current_freq, scan_results>>
    /\ UNCHANGED <<stitchVars, peakVars, restVars>>

StoreRow_aliased(rows, i, row) ==
    [k \in 1..Len(rows) |-> IF k <= i + 1 THEN row ELSE rows[k]]

\* arrays['segments'][i] = psd, arrays['freq_arrays'][i] = freqs (lines
\* 299-300): the values of the returned copy are written into row i of the
\* pre-allocated two-dimensional array.
StoreRow(rows, i, row) == [rows EXCEPT ![i + 1] = row]

\* One iteration of the capture loop (lines 291-303 / 364-375) with
\* capture_and_process_segment (lines 73-128): tune, capture, transform, store.
SweepStep ==
    /\ sw_pc = "loop" /\ sw_variant \in SweepVariants
    /\ sw_range # <<>> /\ sw_i < num_steps
    /\ LET center_freq == Head(sw_range)
           fft_size == scan_config.fft_size
       IN  \E samples \in CaptureOutcomes(fft_size) :
             /\ tuned' = Append(tuned, center_freq)
             /\ captured' = Append(captured, [center_freq |-> center_freq,
                                              samples |-> samples])
             /\ IF SegmentExc(samples, fft_size) # "none"
                THEN /\ sw_result' = EndOnException(sw_variant,
                                                    SegmentExc(samples, fft_size))
                     /\ sw_pc' = IF sw_variant = "scan_and_stitch_spectrum"
                                 THEN "raised" ELSE "returned"
                     /\ is_connected' = AfterExit(sw_variant, is_connected)
                     /\ UNCHANGED <<sw_range, sw_i, arrays_segments,
                                    arrays_freq_arrays>>
                ELSE \E psd \in SeqsOfLen(PsdVals, fft_size) :
                     /\ arrays_segments' = StoreRow(arrays_segments, sw_i, psd)
                     /\ arrays_freq_arrays' =
                            StoreRow(arrays_freq_arrays, sw_i,
                                     SegmentFreqs(center_freq, sample_rate, fft_size))
                     /\ sw_range' = Tail(sw_range)
                     /\ sw_i' = sw_i + 1
                     /\ UNCHANGED <<sw_pc, sw_result, is_connected>>
    /\ UNCHANGED <<sw_variant, scan_config, num_steps, sample_rate,
                   current_freq, scan_results>>
    /\ UNCHANGED <<stitchVars, peakVars, restVars>>

\* The loop is over: gain correction, stitching, smoothing, return
\* (lines 306-332 / 378-402).
SweepFinish ==
    /\ sw_pc = "loop" /\ sw_variant \in SweepVariants
    /\ (sw_range = <<>> \/ sw_i >= num_steps)
    /\ IF PostExc(arrays_segments) # "none"
       THEN /\ sw_result' = EndOnException(sw_variant, PostExc(arrays_segments))
            /\ sw_pc' = IF sw_variant = "scan_and_stitch_spectrum"
                        THEN "raised" ELSE "returned"
       ELSE /\ sw_result' = PostArrays(arrays_segments, arrays_freq_arrays)
            /\ sw_pc' = "returned"
    /\ is_connected' = AfterExit(sw_variant, is_connected)
    /\ UNCHANGED <<sw_variant, scan_config, num_steps, sw_range, sw_i,
                   arrays_segments, arrays_freq_arrays, tuned, captured,
                   sample_rate, current_freq, scan_results>>
    /\ UNCHANGED <<stitchVars, peakVars, restVars>>

(***************************************************************************)
(* scan_frequency_range (device.py 8-66): a while loop that tunes, waits,  *)
(* reads sdr.rx() and records a power level per frequency.  The power      *)
(* level itself is not modelled: scan_results is the set of its keys.      *)
(***************************************************************************)
ScanInput ==
    \E s \in 0..MaxSweepFreq, e \in 0..MaxSweepFreq, st \in SweepSteps, c \in BOOLEAN :
        /\ sw_variant = "scan_frequency_range"
        /\ scan_config = [start_frequency |-> s, end_frequency |-> e,
                          step_frequency |-> st, fft_size |-> 0]
        /\ sample_rate = 0
        /\ is_connected = c
        /\ sw_pc = "call" /\ num_steps = 0 /\ sw_range = <<>> /\ sw_i = 0
        /\ arrays_segments = <<>> /\ arrays_freq_arrays = <<>>
        /\ tuned = <<>> /\ captured = <<>>
        /\ current_freq = 0 /\ scan_results = {}
        /\ sw_result = NoResult

\* lines 25-30
ScanCall ==
    /\ sw_pc = "call" /\ sw_variant = "scan_frequency_range"
    /\ IF ~is_connected
       THEN /\ sw_result' = Result("dict", <<>>, <<>>, {}, "none",
                                   "Error: PlutoSDR not connected")
            /\ sw_pc' = "returned"
            /\ UNCHANGED current_freq
       ELSE /\ current_freq' = scan_config.start_frequency
            /\ sw_pc' = "loop"
            /\ UNCHANGED sw_result
    /\ UNCHANGED <<sw_variant, scan_config, num_steps, sw_range, sw_i,
                   arrays_segments, arrays_freq_arrays, tuned, captured,
                   is_connected, sample_rate, scan_results>>
    /\ UNCHANGED <<stitchVars, peakVars, restVars>>

\* One iteration of the while loop, lines 36-58; an exception of sdr.rx() ends
\* the loop in the except clause (lines 62-66).  A loop that does not advance
\* (step 0) is followed for MaxTunes iterations.
ScanStep ==
    /\ sw_pc = "loop" /\ sw_variant = "scan_frequency_range"
    /\ current_freq <= scan_config.end_frequency
    /\ (scan_config.step_frequency # 0 \/ Len(tuned) < MaxTunes)
    /\ tuned' = Append(tuned, current_freq)
    /\ \E rx_ok \in BOOLEAN :
          /\ captured' = Append(captured, [center_freq |-> current_freq,
                                           samples |-> [none |-> ~rx_ok, len |-> 1]])
          /\ IF rx_ok
             THEN /\ scan_results' = scan_results \cup {current_freq}
                  /\ current_freq' = current_freq + scan_config.step_frequency
                  /\ UNCHANGED <<sw_pc, sw_result>>
             ELSE /\ sw_result' = Result("dict", <<>>, <<>>, scan_results, "none",
                                         "Error during scan")
                  /\ sw_pc' = "returned"
                  /\ UNCHANGED <<scan_results, current_freq>>
    /\ UNCHANGED <<sw_variant, scan_config, num_steps, sw_range, sw_i,
                   arrays_segments, arrays_freq_arrays, is_connected, sample_rate>>
    /\ UNCHANGED <<stitchVars, peakVars, restVars>>

\* lines 36, 65-66
ScanFinish ==
    /\ sw_pc = "loop" /\ sw_variant = "scan_frequency_range"
    /\ current_freq > scan_config.end_frequency
    /\ sw_result' = Result("dict", <<>>, <<>>, scan_results, "none", "")
    /\ sw_pc' = "returned"
    /\ UNCHANGED <<sw_variant, scan_config, num_steps, sw_range, sw_i,
                   arrays_segments, arrays_freq_arrays, tuned, captured,
                   is_connected, sample_rate, current_freq, scan_results>>
    /\ UNCHANGED <<stitchVars, peakVars, restVars>>

(***************************************************************************)
(* enhanced_frequency_scan (tests/scan-freq.py 177-240): the same loop with *)
(* pluto.capture_samples, which returns None instead of raising, and a list *)
(* of peaks recorded per center frequency.  scan_results is the set of the  *)
(* dictionary's keys; what was stored at each step is kept in captured.     *)
(***************************************************************************)
EnhancedInput ==
    \E s \in 0..MaxSweepFreq, e \in 0..MaxSweepFreq, st \in SweepSteps, c \in BOOLEAN :
        /\ sw_variant = "enhanced_frequency_scan"
        /\ scan_config = [start_frequency |-> s, end_frequency |-> e,
                          step_frequency |-> st, fft_size |-> 0]
        /\ sample_rate = 0
        /\ is_connected = c
        /\ sw_pc = "call" /\ num_steps = 0 /\ sw_range = <<>> /\ sw_i = 0
        /\ arrays_segments = <<>> /\ arrays_freq_arrays = <<>>
        /\ tuned = <<>> /\ captured = <<>>
        /\ current_freq = 0 /\ scan_results = {}
        /\ sw_result = NoResult

RecordEmpty_skipped(results, freq) == results

\* scan_results[current_freq] = [] (line 231)
RecordEmpty(results, freq) == results \cup {freq}

\* lines 187-193
EnhancedCall ==
    /\ sw_pc = "call" /\ sw_variant = "enhanced_frequency_scan"
    /\ IF ~is_connected
       THEN /\ sw_result' = Result("dict", <<>>, <<>>, {}, "none",
                                   "Error: PlutoSDR not connected")
            /\ sw_pc' = "returned"
            /\ UNCHANGED current_freq
       ELSE /\ current_freq' = scan_config.start_frequency
            /\ sw_pc' = "loop"
            /\ UNCHANGED sw_result
    /\ UNCHANGED <<sw_variant, scan_config, num_steps, sw_range, sw_i,
                   arrays_segments, arrays_freq_arrays, tuned, captured,
                   is_connected, sample_rate, scan_results>>
    /\ UNCHANGED <<stitchVars, peakVars, restVars>>

\* One iteration of the while loop, lines 203-233.  A loop that does not
\* advance (step 0) is followed for MaxTunes iterations.
EnhancedStep ==
    /\ sw_pc = "loop" /\ sw_variant = "enhanced_frequency_scan"
    /\ current_freq <= scan_config.end_frequency
    /\ (scan_config.step_frequency # 0 \/ Len(tuned) < MaxTunes)
    /\ tuned' = Append(tuned, current_freq)
    /\ \E capture_ok \in BOOLEAN :
          /\ captured' = Append(captured,
                   [center_freq |-> current_freq,
                    samples |-> [none |-> ~capture_ok, len |-> 1],
                    recorded |-> IF capture_ok THEN "peaks" ELSE "empty"])
          /\ scan_results' = IF capture_ok THEN scan_results \cup {current_freq}
                             ELSE RecordEmpty(scan_results, current_freq)
    /\ current_freq' = current_freq + scan_config.step_frequency
    /\ UNCHANGED <<sw_variant, scan_config, sw_pc, num_steps, sw_range, sw_i,
                   arrays_segments, arrays_freq_arrays, is_connected, sample_rate,
                   sw_result>>
    /\ UNCHANGED <<stitchVars, peakVars, restVars>>

\* lines 203, 240
EnhancedFinish ==
    /\ sw_pc = "loop" /\ sw_variant = "enhanced_frequency_scan"
    /\ current_freq > scan_config.end_frequency
    /\ sw_result' = Result("dict", <<>>, <<>>, scan_results, "none", "")
    /\ sw_pc' = "returned"
    /\ UNCHANGED <<sw_variant, scan_config, num_steps, sw_range, sw_i,
                   arrays_segments, arrays_freq_arrays, tuned, captured,
                   is_connected, sample_rate, current_freq, scan_results>>
    /\ UNCHANGED <<stitchVars, peakVars, restVars>>

InitSweep ==
    (SweepInput \/ ScanInput \/ EnhancedInput) /\ StitchIdle /\ PeaksIdle /\ RestIdle

NextSweep ==
    \/ SweepCall \/ SweepCallWithConnection \/ SweepStep \/ SweepFinish
    \/ ScanCall \/ ScanStep \/ ScanFinish
    \/ EnhancedCall \/ EnhancedStep \/ EnhancedFinish

SpecSweep == InitSweep /\ [][NextSweep]_vars

(***************************************************************************)
(* detect_peaks_in_spectrum (tests/scan-freq.py 81-174).  The FFT of the   *)
(* samples is not modelled: the search runs on power_spectrum, the shifted *)
(* dB array of lines 129-141, of length min(fft_size, len(samples)).       *)
(* Indices are the code's 0-based ones; P(ps, i) is power_spectrum[i].     *)
(***************************************************************************)
PowerVals == {-90, -50, -30, 0}

PeakConfigs ==
    [min_peak_height : {-40}, peak_threshold_db : {25},
     window_size_divisor : {3, 100}, min_window_size : {1},
     max_peaks_per_band : {1, 2}]

PeakArgs == [center_freq : {100}, sample_rate : {8}, bandwidth : {4, 64}]

P(ps, i) == ps[i + 1]

\* lines 145-148
window_size(cfg, n) == Max2(cfg.min_window_size, n \div cfg.window_size_divisor)

\* lines 154-155: the bin passes the minimum height
HeightOk_any(cfg, ps, i) == TRUE

HeightOk(cfg, ps, i) == ~(P(ps, i) < cfg.min_peak_height)

\* lines 158-159: current_power == np.max(power_spectrum[i-w : i+w+1])
IsLocalMax_adjacent(ps, i, w) == \A j \in (i - 1)..(i + 1) : P(ps, j) <= P(ps, i)

IsLocalMax(ps, i, w) == \A j \in (i - w)..(i + w) : P(ps, j) <= P(ps, i)

FlankIndices_left_only(n, i, w) == Max2(0, i - w * 2)..(i - w - 1)

\* lines 161-164: the two slices that are concatenated and averaged
FlankIndices(n, i, w) ==
    (Max2(0, i - w * 2)..(i - w - 1)) \cup ((i + w)..(Min2(n, i + w * 2) - 1))

RECURSIVE SumOver(_, _)
SumOver(ps, idx) ==
    IF idx = {} THEN 0
    ELSE LET j == CHOOSE x \in idx : TRUE
         IN  P(ps, j) + SumOver(ps, idx \ {j})

\* line 166: current_power - surrounding_avg >= peak_threshold_db; the mean of
\* an empty concatenation is nan, and no comparison with nan is true.
AboveSurrounding(cfg, ps, i, w) ==
    LET idx == FlankIndices(Len(ps), i, w)
        cnt == Cardinality(idx)
    IN  /\ cnt > 0
        /\ P(ps, i) * cnt - SumOver(ps, idx) >= cfg.peak_threshold_db * cnt

\* lines 138-140, 167: int(freqs[i]) with freqs = fftshift(fftfreq(n, 1/rate)) +
\* center_freq: bin i lies (i - n // 2) * rate / n above the center.
freq_hz(args, n, i) ==
    (args.center_freq * n + (i - n \div 2) * args.sample_rate) \div n

\* line 169
InBand(args, n, i) ==
    Abs(freq_hz(args, n, i) - args.center_freq) <= args.bandwidth \div 2

Accepted(cfg, args, ps, i) ==
    LET w == window_size(cfg, Len(ps))
    IN  /\ HeightOk(cfg, ps, i)
        /\ IsLocalMax(ps, i, w)
        /\ AboveSurrounding(cfg, ps, i, w)
        /\ InBand(args, Len(ps), i)

\* lines 150-170: the peaks appended for i = from, from + 1, ... < to
RECURSIVE PeaksFrom(_, _, _, _, _)
PeaksFrom(cfg, args, ps, from, to) ==
    IF from >= to THEN <<>>
    ELSE (IF Accepted(cfg, args, ps, from)
          THEN <<[idx |-> from, freq |-> freq_hz(args, Len(ps), from),
                  power |-> P(ps, from)]>>
          ELSE <<>>) \o PeaksFrom(cfg, args, ps, from + 1, to)

\* line 173: peaks.sort(key=power, reverse=True), a stable sort
RECURSIVE InsertDesc(_, _)
InsertDesc(x, t) ==
    IF t = <<>> THEN <<x>>
    ELSE IF t[1].power > x.power THEN <<t[1]>> \o InsertDesc(x, Tail(t))
    ELSE <<x>> \o t

SortDesc_unsorted(s) == s

RECURSIVE SortDesc(_)
SortDesc(s) == IF s = <<>> THEN <<>> ELSE InsertDesc(s[1], SortDesc(Tail(s)))

\* line 174: peaks[:max_peaks_per_band]
Truncate_none(s, m) == s

Truncate(s, m) == SubSeq(s, 1, Min2(m, Len(s)))

detect_peaks_in_spectrum(cfg, args, ps) ==
    IF Len(ps) = 0 THEN <<>>
    ELSE LET w == window_size(cfg, Len(ps))
         IN  Truncate(SortDesc(PeaksFrom(cfg, args, ps, w, Len(ps) - w)),
                      cfg.max_peaks_per_band)

PeaksInput ==
    \E cfg \in PeakConfigs, args \in PeakArgs, n \in 0..MaxLen :
      \E ps \in SeqsOfLen(PowerVals, n) :
        /\ FFT_CONFIG = cfg
        /\ pk_args = args
        /\ power_spectrum = ps
        /\ pk_pc = "call"
        /\ peaks = <<>>

Detect ==
    /\ pk_pc = "call"
    /\ peaks' = detect_peaks_in_spectrum(FFT_CONFIG, pk_args, power_spectrum)
    /\ pk_pc' = "returned"
    /\ UNCHANGED <<FFT_CONFIG, power_spectrum, pk_args>>
    /\ UNCHANGED <<stitchVars, sweepVars, restVars>>

InitPeaks == PeaksInput /\ StitchIdle /\ SweepIdle /\ RestIdle

NextPeaks == Detect

SpecPeaks == InitPeaks /\ [][NextPeaks]_vars

(***************************************************************************)
(* Spectral estimation on a given sample array: the part of                *)
(* capture_and_process_segment after the capture (spectrum.py 77, 105-128) *)
(* and SpectrumProcessor.process_fft (spectrum_demo.py 78-100, 130-160).   *)
(* The window, the FFT and the dB conversion are elementwise or length     *)
(* preserving on the buffer; the model keeps the buffer and the lengths.   *)
(***************************************************************************)
MaxSamples == 4

SampleVals == {1, 2}

EstimatePaths == {"sweep", "live"}

EstimateArgs == [fft_size : {2, 3}, sample_rate : {6}, center_freq : {10}]

\* iq_samples[:fft_size]
Truncated(samples, fft_size) == SubSeq(samples, 1, Min2(Len(samples), fft_size))

\* padded = zeros(fft_size); padded[:len(iq_samples)] = iq_samples
PadTail(samples, fft_size) ==
    [j \in 1..fft_size |-> IF j <= Len(samples) THEN samples[j] ELSE 0]

\* process_fft, lines 88-94
FitToFftSize(samples, fft_size) ==
    IF Len(samples) > fft_size THEN Truncated(samples, fft_size)
    ELSE IF Len(samples) < fft_size THEN PadTail(samples, fft_size)
    ELSE samples

\* buffer[:] = iq for an iq that numpy accepts: the same length, or a single
\* element that is broadcast over the buffer.
CopyIntoBuffer(iq, fft_size) ==
    IF Len(iq) = fft_size THEN iq ELSE [j \in 1..fft_size |-> iq[1]]

EstimateResult(args, buffer) ==
    [frequencies |-> FreqRow(args.center_freq - args.sample_rate \div 2,
                             args.sample_rate \div args.fft_size, args.fft_size),
     psd_bins |-> Len(buffer)]

\* The frequencies the receiver may be tuned to when a segment begins: the
\* previous center of the sweep, or the center asked for.
TunedBefore == {4, 10}

\* PlutoSDR.set_frequency on a connected device (pluto.py 97-106): rx_lo is
\* assigned, or the assignment raises, False is returned and rx_lo stays.
TunedTo(lo, frequency_hz, tune_ok) == IF tune_ok THEN frequency_hz ELSE lo

EstimateInput ==
    \E path \in EstimatePaths, args \in EstimateArgs, n \in 0..MaxSamples,
       lo \in TunedBefore :
      \E samples \in SeqsOfLen(SampleVals, n) :
        /\ est_path = path
        /\ est_args = args
        /\ iq_samples = samples
        /\ iq_buffer = ZeroRow(args.fft_size)
        /\ est_result = [frequencies |-> <<>>, psd_bins |-> 0]
        /\ est_pc = "call" /\ est_exc = "none"
        /\ rx_lo = lo /\ captured_at = lo

\* capture_and_process_segment: the return value of set_frequency is dropped
\* (line 73), the capture of line 77 is taken at whatever rx_lo is by then.
ProcessSegment ==
    /\ est_pc = "call" /\ est_path = "sweep"
    /\ \E tune_ok \in BOOLEAN :
          /\ rx_lo' = TunedTo(rx_lo, est_args.center_freq, tune_ok)
          /\ captured_at' = TunedTo(rx_lo, est_args.center_freq, tune_ok)
    /\ LET fft_size == est_args.fft_size
           iq == Truncated(iq_samples, fft_size)
           exc == SegmentExc([none |-> FALSE, len |-> Len(iq_samples)], fft_size)
       IN  IF exc # "none"
           THEN /\ est_pc' = "raised" /\ est_exc' = exc
                /\ UNCHANGED <<iq_buffer, est_result>>
           ELSE /\ iq_buffer' = CopyIntoBuffer(iq, fft_size)
                /\ est_result' = EstimateResult(est_args, CopyIntoBuffer(iq, fft_size))
                /\ est_pc' = "returned"
                /\ UNCHANGED est_exc
    /\ UNCHANGED <<est_path, est_args, iq_samples>>
    /\ UNCHANGED <<stitchVars, sweepVars, peakVars, smoothVars, serverVars,
                   distVars, plutoVars>>

\* SpectrumProcessor.process_fft
process_fft ==
    /\ est_pc = "call" /\ est_path = "live"
    /\ LET fft_size == est_args.fft_size
           iq == FitToFftSize(iq_samples, fft_size)
       IN  /\ iq_buffer' = CopyIntoBuffer(iq, fft_size)
           /\ est_result' = EstimateResult(est_args, CopyIntoBuffer(iq, fft_size))
           /\ est_pc' = "returned"
    /\ UNCHANGED <<est_path, est_args, iq_samples, est_exc, rx_lo, captured_at>>
    /\ UNCHANGED <<stitchVars, sweepVars, peakVars, smoothVars, serverVars,
                   distVars, plutoVars>>

InitEstimate ==
    EstimateInput /\ CoreIdle /\ SmoothIdle /\ ServerIdle /\ DistanceIdle /\ PlutoIdle

NextEstimate == ProcessSegment \/ process_fft

SpecEstimate == InitEstimate /\ [][NextEstimate]_vars

(***************************************************************************)
(* apply_final_smoothing called on a merged curve.                         *)
(***************************************************************************)
MaxCurve == 12

SmoothInput ==
    \E n \in 0..MaxCurve :
      \E psd \in SeqsOfLen(PsdVals, n) :
        /\ sm_psd = ToRat(psd)
        /\ sm_out = <<>>
        /\ sm_pc = "call"

Smooth ==
    /\ sm_pc = "call"
    /\ sm_out' = apply_final_smoothing(sm_psd)
    /\ sm_pc' = "returned"
    /\ UNCHANGED sm_psd
    /\ UNCHANGED <<stitchVars, sweepVars, peakVars, estVars, serverVars,
                   distVars, plutoVars>>

InitSmooth ==
    SmoothInput /\ CoreIdle /\ EstimateIdle /\ ServerIdle /\ DistanceIdle /\ PlutoIdle

NextSmooth == Smooth

SpecSmooth == InitSmooth /\ [][NextSmooth]_vars

(***************************************************************************)
(* The streaming server (main_demo.py 83-203, main.py 93-213).  All        *)
(* coroutines run on one event loop: a coroutine runs without interruption *)
(* from one await to the next, so an action is the code between two awaits.*)
(* toggle_streaming has no await and is one action.  Task.cancel() only    *)
(* requests the cancellation: the task is not done() until it has been     *)
(* resumed with the CancelledError, which is raised at the await it is     *)
(* suspended in.  Every websocket object serves one connection.            *)
(***************************************************************************)
MaxTasks == 3

MaxDevices == 2

TaskAlive == streaming_task \in {"start", "sleep", "send"}

NoneOrDone_always == TRUE

\* streaming_task is None or streaming_task.done()
NoneOrDone == streaming_task \in {"None", "done"}

\* "if pluto_sdr and spectrum_processor and streaming_enabled" (line 142)
CanCapture(dev, proc, enabled) == dev # "None" /\ proc # "None" /\ enabled

SuspendsAfterCheck_awaits == TRUE

\* Whether the task can be suspended between the test of line 142 and the
\* calls of capture_samples and process_fft (lines 144-147): there is no await
\* there, the first one is the send_text of line 167.
SuspendsAfterCheck == FALSE

OnCaptureFailure_exit == "done"

\* Where the task is after an iteration whose capture or FFT raised: in the
\* sleep of the except clause (lines 178-180), inside the loop.
OnCaptureFailure == "sleep"

Without(seq, gone) == SelectSeq(seq, LAMBDA ws : \A k \in 1..Len(gone) : gone[k] # ws)

\* toggle_streaming(streaming=True), lines 89-120 and, when the construction
\* of SpectrumProcessor raises, the except clause of lines 132-134.
ToggleOn ==
    /\ last_toggle' = "on"
    /\ \E outcome \in {"ok", "connect_failed", "processor_raised"} :
          IF outcome = "ok"
          THEN /\ streaming_enabled' = TRUE
               /\ pluto_sdr' = "device"
               /\ open_devices' = Min2(open_devices + 1, MaxDevices)
               /\ spectrum_processor' = "processor"
               /\ IF active_connections # <<>> /\ NoneOrDone
                  THEN /\ streaming_task' = "start" /\ cancel_requested' = FALSE
                       /\ tasks_alive' = Min2(tasks_alive + 1, MaxTasks)
                       /\ cancel_seen' = FALSE
                  ELSE UNCHANGED <<streaming_task, cancel_requested, tasks_alive,
                                   cancel_seen>>
          ELSE IF outcome = "processor_raised"
          THEN /\ streaming_enabled' = FALSE
               /\ pluto_sdr' = "device"
               /\ open_devices' = Min2(open_devices + 1, MaxDevices)
               /\ UNCHANGED <<spectrum_processor, streaming_task, cancel_requested,
                              tasks_alive, cancel_seen>>
          ELSE /\ streaming_enabled' = FALSE
               /\ pluto_sdr' = "None"
               /\ UNCHANGED <<spectrum_processor, streaming_task, cancel_requested,
                              tasks_alive, cancel_seen, open_devices>>
    /\ UNCHANGED <<active_connections, send_list, disconnected, sockets, frame_parity,
                   last_capture>>
    /\ UNCHANGED <<stitchVars, sweepVars, peakVars, estVars, smoothVars,
                   distVars, plutoVars>>

\* toggle_streaming(streaming=False), lines 89, 121-131
ToggleOff ==
    /\ last_toggle' = "off"
    /\ streaming_enabled' = FALSE
    /\ cancel_requested' = (cancel_requested \/ TaskAlive)
    /\ cancel_seen' = (cancel_seen \/ TaskAlive)
    /\ IF pluto_sdr # "None"
       THEN /\ pluto_sdr' = "None" /\ spectrum_processor' = "None"
            /\ open_devices' = open_devices - 1
       ELSE UNCHANGED <<pluto_sdr, spectrum_processor, open_devices>>
    /\ UNCHANGED <<active_connections, streaming_task, send_list, disconnected,
                   sockets, frame_parity, tasks_alive, last_capture>>
    /\ UNCHANGED <<stitchVars, sweepVars, peakVars, estVars, smoothVars,
                   distVars, plutoVars>>

\* websocket_endpoint from the return of accept() to the first receive_text(),
\* lines 188-197
WsConnect(ws) ==
    /\ sockets[ws] = "new"
    /\ sockets' = [sockets EXCEPT ![ws] = "open"]
    /\ active_connections' = Append(active_connections, ws)
    /\ IF Len(active_connections) + 1 = 1 /\ streaming_enabled /\ NoneOrDone
       THEN /\ streaming_task' = "start" /\ cancel_requested' = FALSE
            /\ tasks_alive' = Min2(tasks_alive + 1, MaxTasks)
            /\ cancel_seen' = FALSE
       ELSE UNCHANGED <<streaming_task, cancel_requested, tasks_alive, cancel_seen>>
    /\ UNCHANGED <<streaming_enabled, pluto_sdr, spectrum_processor, send_list,
                   disconnected, last_toggle, frame_parity, open_devices,
                   last_capture>>
    /\ UNCHANGED <<stitchVars, sweepVars, peakVars, estVars, smoothVars,
                   distVars, plutoVars>>

\* websocket_endpoint when receive_text() raises WebSocketDisconnect,
\* lines 198-203
WsDisconnect(ws) ==
    /\ sockets[ws] = "open"
    /\ sockets' = [sockets EXCEPT ![ws] = "closed"]
    /\ active_connections' = Without(active_connections, <<ws>>)
    /\ cancel_requested' =
          (cancel_requested \/
           (Without(active_connections, <<ws>>) = <<>> /\ TaskAlive))
    /\ cancel_seen' =
          (cancel_seen \/
           (Without(active_connections, <<ws>>) = <<>> /\ TaskAlive))
    /\ UNCHANGED <<streaming_enabled, pluto_sdr, spectrum_processor,
                   streaming_task, send_list, disconnected, last_toggle,
                   frame_parity, tasks_alive, open_devices, last_capture>>
    /\ UNCHANGED <<stitchVars, sweepVars, peakVars, estVars, smoothVars,
                   distVars, plutoVars>>

\* spectrum_streaming_task resumed at its start or after a sleep: a pending
\* CancelledError ends it (except Exception does not catch it); otherwise the
\* loop test of line 141 and the body up to the next await.
TaskWake ==
    /\ streaming_task \in {"start", "sleep", "checked"}
    /\ LET CaptureAndProcess ==
               \E frame_ok \in BOOLEAN :
                  IF frame_ok
                  THEN /\ send_list' = active_connections
                       /\ disconnected' = <<>>
                       /\ streaming_task' = "send"
                       /\ last_capture' = [parity |-> 1 - last_capture.parity,
                                           result |-> "ok"]
                       /\ UNCHANGED cancel_requested
                  ELSE \* capture_samples returned None: process_fft raises,
                       \* the except clause of line 178 sleeps
                       /\ streaming_task' = OnCaptureFailure
                       /\ last_capture' = [parity |-> 1 - last_capture.parity,
                                           result |-> "failed"]
                       /\ UNCHANGED <<cancel_requested, send_list, disconnected>>
       IN  IF cancel_requested
           THEN /\ streaming_task' = "done" /\ cancel_requested' = FALSE
                /\ UNCHANGED <<send_list, disconnected, last_capture>>
           ELSE IF streaming_task = "checked"
           THEN CaptureAndProcess
           ELSE IF active_connections = <<>> \/ ~streaming_enabled
           THEN /\ streaming_task' = "done"
                /\ UNCHANGED <<cancel_requested, send_list, disconnected, last_capture>>
           ELSE IF CanCapture(pluto_sdr, spectrum_processor, streaming_enabled)
           THEN IF SuspendsAfterCheck
                THEN /\ streaming_task' = "checked"
                     /\ UNCHANGED <<cancel_requested, send_list, disconnected,
                                    last_capture>>
                ELSE CaptureAndProcess
           ELSE /\ streaming_task' = "sleep"
                /\ UNCHANGED <<cancel_requested, send_list, disconnected, last_capture>>
    /\ tasks_alive' = IF streaming_task' = "done" THEN tasks_alive - 1 ELSE tasks_alive
    /\ UNCHANGED <<streaming_enabled, pluto_sdr, spectrum_processor,
                   active_connections, sockets, last_toggle, frame_parity,
                   cancel_seen, open_devices>>
    /\ UNCHANGED <<stitchVars, sweepVars, peakVars, estVars, smoothVars,
                   distVars, plutoVars>>

\* spectrum_streaming_task resumed in await websocket.send_text (line 167):
\* the frame is delivered, or send_text raises; the bare except of line 168
\* catches that and also a pending CancelledError.  After the last websocket
\* of the list: lines 172-176.
TaskSend ==
    /\ streaming_task = "send"
    /\ LET ws == Head(send_list)
           ok == ~cancel_requested /\ sockets[ws] = "open"
           gone == IF ok THEN disconnected ELSE Append(disconnected, ws)
       IN  /\ frame_parity' = IF ok THEN 1 - frame_parity ELSE frame_parity
           /\ cancel_requested' = FALSE
           /\ IF Tail(send_list) = <<>>
              THEN /\ active_connections' = Without(active_connections, gone)
                   /\ send_list' = <<>> /\ disconnected' = <<>>
                   /\ streaming_task' = "sleep"
              ELSE /\ send_list' = Tail(send_list)
                   /\ disconnected' = gone
                   /\ UNCHANGED <<active_connections, streaming_task>>
    /\ UNCHANGED <<streaming_enabled, pluto_sdr, spectrum_processor, sockets,
                   last_toggle, tasks_alive, cancel_seen, open_devices,
                   last_capture>>
    /\ UNCHANGED <<stitchVars, sweepVars, peakVars, estVars, smoothVars,
                   distVars, plutoVars>>

InitServer ==
    ServerIdle /\ CoreIdle /\ EstimateIdle /\ SmoothIdle /\ DistanceIdle /\ PlutoIdle

NextServer ==
    \/ ToggleOn
    \/ ToggleOff
    \/ \E ws \in Sockets : WsConnect(ws)
    \/ \E ws \in Sockets : WsDisconnect(ws)
    \/ TaskWake
    \/ TaskSend

SpecServer == InitServer /\ [][NextServer]_vars

(***************************************************************************)
(* The distance formula: calculate_distance (spectrum_demo.py 187-210) and *)
(* line 151 of spectrum_streaming_task, 10 ** ((peak_rssi - rssi_ref) / 20)*)
(* The levels of the model are multiples of 20 dB, for which the power of  *)
(* ten is an exact fraction.                                               *)
(***************************************************************************)
MaxRssiSteps == 7

RssiVals == {0 - 20 * k : k \in 0..MaxRssiSteps}

DistancePaths == {"calculate_distance", "spectrum_streaming_task"}

\* 10 ** k for an integer k
Pow10(k) == IF k >= 0 THEN [n |-> 10 ^ k, d |-> 1] ELSE [n |-> 1, d |-> 10 ^ (0 - k)]

calculate_distance_shifted(peak, ref) == Pow10((peak - ref) \div 20 + 1)

calculate_distance(peak, ref) == Pow10((peak - ref) \div 20)

DistanceInput ==
    \E path \in DistancePaths, peak \in RssiVals, ref \in RssiVals :
        /\ ds_path = path
        /\ peak_rssi = peak /\ rssi_ref = ref
        /\ distance = One
        /\ ds_pc = "call"

\* calculate_distance(peak_rssi, rssi_ref)
CalculateDistance ==
    /\ ds_pc = "call" /\ ds_path = "calculate_distance"
    /\ distance' = calculate_distance(peak_rssi, rssi_ref)
    /\ ds_pc' = "returned"
    /\ UNCHANGED <<ds_path, peak_rssi, rssi_ref>>
    /\ UNCHANGED <<stitchVars, sweepVars, peakVars, estVars, smoothVars,
                   serverVars, plutoVars>>

\* distance = 10 ** ((peak_rssi - RSSI_REF) / 20) in the streaming task
TaskDistance ==
    /\ ds_pc = "call" /\ ds_path = "spectrum_streaming_task"
    /\ distance' = calculate_distance(peak_rssi, rssi_ref)
    /\ ds_pc' = "returned"
    /\ UNCHANGED <<ds_path, peak_rssi, rssi_ref>>
    /\ UNCHANGED <<stitchVars, sweepVars, peakVars, estVars, smoothVars,
                   serverVars, plutoVars>>

InitDistance ==
    DistanceInput /\ CoreIdle /\ EstimateIdle /\ SmoothIdle /\ ServerIdle /\ PlutoIdle

NextDistance == CalculateDistance \/ TaskDistance

SpecDistance == InitDistance /\ [][NextDistance]_vars

(***************************************************************************)
(* PlutoSDR (pluto.py): every method is one action.  The handle carries    *)
(* the attributes the methods assign; ok says whether the hardware call    *)
(* inside the try succeeds.                                                *)
(***************************************************************************)
MaxSetting == 2

Settings == 1..MaxSetting

\* adi.Pluto(uri): a fresh handle with the device defaults
FreshSdr == [none |-> FALSE, rx_lo |-> 1, sample_rate |-> 1, rx_buffer_size |-> 1]

NotConnected_handle_only(connected, handle) == handle.none

\* "not self.is_connected or not self.sdr"
NotConnected(connected, handle) == ~connected \/ handle.none

\* What a method leaves alone outside the PlutoSDR object.
PlutoFrame ==
    UNCHANGED <<stitchVars, peakVars, estVars, smoothVars, serverVars, distVars,
                sw_variant, scan_config, sw_pc, num_steps, sw_range, sw_i,
                arrays_segments, arrays_freq_arrays, tuned, captured,
                sample_rate, current_freq, scan_results, sw_result>>

connect ==
    /\ \E ok \in BOOLEAN :
          IF ok
          THEN /\ sdr' = FreshSdr /\ is_connected' = TRUE
               /\ pl_ret' = Ret("True", 0)
          ELSE /\ sdr' = sdr /\ is_connected' = FALSE
               /\ pl_ret' = Ret("False", 0)
    /\ pl_op' = "connect"
    /\ PlutoFrame

disconnect ==
    /\ IF ~sdr.none
       THEN sdr' = NoSdr /\ is_connected' = FALSE
       ELSE UNCHANGED <<sdr, is_connected>>
    /\ pl_op' = "disconnect" /\ pl_ret' = Ret("None", 0)
    /\ PlutoFrame

\* set_configs({'sample_rate': rate, 'rx_buffer_size': size}): the keys are
\* assigned in order, applied of them before an assignment raises.
set_configs ==
    /\ \E rate \in Settings, size \in Settings, applied \in 0..2 :
          IF NotConnected(is_connected, sdr)
          THEN /\ pl_ret' = Ret("False", 0) /\ UNCHANGED sdr
          ELSE /\ sdr' = [sdr EXCEPT
                            !.sample_rate = IF applied >= 1 THEN rate ELSE @,
                            !.rx_buffer_size = IF applied >= 2 THEN size ELSE @]
               /\ pl_ret' = Ret(IF applied = 2 THEN "True" ELSE "False", 0)
    /\ pl_op' = "set_configs"
    /\ UNCHANGED is_connected
    /\ PlutoFrame

set_frequency ==
    /\ \E frequency_hz \in Settings, ok \in BOOLEAN :
          IF NotConnected(is_connected, sdr)
          THEN /\ pl_ret' = Ret("False", 0) /\ UNCHANGED sdr
          ELSE /\ sdr' = [sdr EXCEPT !.rx_lo = TunedTo(@, frequency_hz, ok)]
               /\ pl_ret' = Ret(IF ok THEN "True" ELSE "False", 0)
    /\ pl_op' = "set_frequency"
    /\ UNCHANGED is_connected
    /\ PlutoFrame

get_sample_rate ==
    /\ pl_ret' = IF NotConnected(is_connected, sdr) THEN Ret("None", 0)
                 ELSE Ret("value", sdr.sample_rate)
    /\ pl_op' = "get_sample_rate"
    /\ UNCHANGED <<sdr, is_connected>>
    /\ PlutoFrame

get_rx_frequency ==
    /\ pl_ret' = IF NotConnected(is_connected, sdr) THEN Ret("None", 0)
                 ELSE Ret("value", sdr.rx_lo)
    /\ pl_op' = "get_rx_frequency"
    /\ UNCHANGED <<sdr, is_connected>>
    /\ PlutoFrame

\* capture_samples(num_samples): rx_buffer_size is assigned, then rx() is
\* called; either may raise.
capture_samples ==
    /\ \E num_samples \in Settings, size_ok \in BOOLEAN, rx_ok \in BOOLEAN :
          IF NotConnected(is_connected, sdr)
          THEN /\ pl_ret' = Ret("None", 0) /\ UNCHANGED sdr
          ELSE /\ sdr' = [sdr EXCEPT !.rx_buffer_size = TunedTo(@, num_samples, size_ok)]
               /\ pl_ret' = IF size_ok /\ rx_ok THEN Ret("samples", num_samples)
                            ELSE Ret("None", 0)
    /\ pl_op' = "capture_samples"
    /\ UNCHANGED is_connected
    /\ PlutoFrame

InitPluto ==
    /\ PlutoIdle /\ CoreIdle
    /\ EstimateIdle /\ SmoothIdle /\ ServerIdle /\ DistanceIdle

NextPluto ==
    \/ connect
    \/ disconnect
    \/ set_configs
    \/ set_frequency
    \/ get_sample_rate
    \/ get_rx_frequency
    \/ capture_samples

SpecPluto == InitPluto /\ [][NextPluto]_vars

(***************************************************************************)
(* Claims about stitching and gain correction.                             *)
(***************************************************************************)

\* C1: for every non-empty ordered list of segments (each axis strictly
\* increasing, disjoint, overlapping or sharing a boundary frequency) the
\* frequency axis stitch_segments_with_overlap_handling returns is strictly
\* increasing: no duplicate and no out-of-order bin.
C1_StitchedAxisStrictlyIncreasing ==
    st_pc = "returned" => StrictlyIncreasing(current_freqs)

\* The 1-based first index of next_freqs whose frequency exceeds last;
\* Len + 1 when there is none.
FirstExceeding(next_freqs, last) ==
    Cardinality({j \in 1..Len(next_freqs) : next_freqs[j] <= last}) + 1

\* C2: each merge step appends the whole next segment when the accumulated last
\* frequency is below the segment's first one, and otherwise only the tail that
\* starts at the first index whose frequency exceeds the accumulated last
\* frequency; the bins accumulated so far, frequency and power, stay as they are.
C2_MergeAppendsOnlyExceedingTail ==
    [][StitchStep =>
        LET next_freqs == freq_arrays[st_i]
            next_psd == CorrectedPsd(segments[st_i], gain_corrections[st_i])
            from == FirstExceeding(next_freqs, Last(current_freqs))
        IN  /\ current_freqs' = current_freqs \o SubSeq(next_freqs, from, Len(next_freqs))
            /\ current_psd' = current_psd \o SubSeq(next_psd, from, Len(next_psd))]_vars

\* C4: applied to the empty segment list, gain correction and stitching return
\* an empty result (zero-length arrays) and raise nothing.
C4_EmptyListGivesEmptyResult ==
    (segments = <<>> /\ st_pc # "input") =>
        /\ st_exc = "none"
        /\ st_pc \in {"gained", "loop", "returned"}
        /\ gain_corrections = <<>> /\ current_freqs = <<>> /\ current_psd = <<>>

Terminal == sw_pc \in {"returned", "raised"}

\* The driver ended before it used the device: connecting or configuring
\* failed, or the device it was handed is not connected.
DeviceRefused ==
    \/ sw_result.log \in {"Failed to connect to PlutoSDR",
                          "Failed to configure PlutoSDR",
                          "Error: PlutoSDR not connected"}
    \/ (sw_variant # "scan_and_stitch_spectrum" /\ ~is_connected)

\* A capture that delivered no samples, or fewer than fft_size.
CaptureFailed(c) == c.samples.none \/ c.samples.len < scan_config.fft_size

\* start, start + step, ... <= end
ExpectedCenters(cfg) ==
    [k \in 1..((cfg.end_frequency - cfg.start_frequency) \div cfg.step_frequency + 1)
        |-> cfg.start_frequency + (k - 1) * cfg.step_frequency]

IsPrefix(s, t) == Len(s) <= Len(t) /\ s = SubSeq(t, 1, Len(s))

ValidSweep ==
    /\ sw_variant \in SweepVariants
    /\ scan_config.start_frequency <= scan_config.end_frequency
    /\ scan_config.step_frequency > 0
    /\ scan_config.fft_size > 0

\* C3: a step whose capture fails (no samples, or fewer than fft_size) is left
\* out of the stitching and the sweep goes on: it still visits every center
\* frequency and returns the stitched data of all successful steps.
C3_FailedCaptureIsSkipped ==
    (ValidSweep /\ Terminal /\ \E k \in 1..Len(captured) : CaptureFailed(captured[k])) =>
        /\ sw_result.kind = "arrays"
        /\ tuned = ExpectedCenters(scan_config)
        /\ \A k \in 1..Len(captured) :
              ~CaptureFailed(captured[k]) =>
                  Last(SegmentFreqs(captured[k].center_freq, sample_rate,
                                    scan_config.fft_size)) \in Range(sw_result.freqs)

InvalidConfig ==
    \/ scan_config.step_frequency = 0
    \/ scan_config.end_frequency < scan_config.start_frequency
    \/ (sw_variant \in SweepVariants /\ scan_config.fft_size <= 0)

\* C5: a sweep or scan whose configuration has a zero step, end < start or a
\* non-positive fft_size fails fast with an error reported to the caller: it
\* never tunes or captures, never enters its loop, and returns nothing.
C5_InvalidConfigFailsFast ==
    (InvalidConfig /\ sw_pc # "call") =>
        /\ tuned = <<>> /\ captured = <<>>
        /\ sw_pc # "loop"
        /\ ~DeviceRefused => sw_result.kind = "raised"

\* C6: for start <= end and step > 0 a sweep tunes and captures exactly
\* floor((end - start) / step) + 1 times, at start, start + step, ... in
\* ascending order, no frequency twice and none skipped.
C6_SweepVisitsEveryCenterOnce ==
    ValidSweep =>
        /\ IsPrefix(tuned, ExpectedCenters(scan_config))
        /\ [k \in 1..Len(captured) |-> captured[k].center_freq] = tuned
        /\ (Terminal /\ ~DeviceRefused) => tuned = ExpectedCenters(scan_config)


(***************************************************************************)
(* Claims about peak detection.                                            *)
(***************************************************************************)
\* The bins of the two flanking bands [i-2w, i-w) and [i+w, i+2w) that exist.
ClaimFlank(n, i, w) ==
    {j \in 0..(n - 1) : (i - 2 * w <= j /\ j < i - w) \/ (i + w <= j /\ j < i + 2 * w)}

\* C8: every returned peak sits at an interior index i in [w, len - w) with
\* w = max(min_window_size, len // window_size_divisor); its power is the
\* maximum of the closed window [i-w, i+w]; and its power exceeds the mean of
\* the flanking bins (clipped to the array) by at least peak_threshold_db.
C8_PeakIsProminentLocalMax ==
    pk_pc = "returned" =>
        LET n == Len(power_spectrum)
            w == IF FFT_CONFIG.min_window_size >= n \div FFT_CONFIG.window_size_divisor
                 THEN FFT_CONFIG.min_window_size
                 ELSE n \div FFT_CONFIG.window_size_divisor
        IN  \A k \in 1..Len(peaks) :
              LET i == peaks[k].idx
                  flank == ClaimFlank(n, i, w)
              IN  /\ w <= i /\ i < n - w
                  /\ peaks[k].power = power_spectrum[i + 1]
                  /\ \A j \in (i - w)..(i + w) :
                        power_spectrum[j + 1] <= peaks[k].power
                  /\ flank # {}
                  /\ (peaks[k].power - FFT_CONFIG.peak_threshold_db) * Cardinality(flank)
                        >= SumOver(power_spectrum, flank)

\* a peak was returned whose window is clipped by the array on the left
C8_Witness ==
    /\ pk_pc = "returned"
    /\ \E k \in 1..Len(peaks) :
          /\ peaks[k].idx < 2 * window_size(FFT_CONFIG, Len(power_spectrum))
          /\ window_size(FFT_CONFIG, Len(power_spectrum)) = 2

\* C9: of several bins that hold the same maximal power inside one window
\* [i-w, i+w] only the earliest is accepted: no returned peak has an equal
\* bin before it in its window.
C9_PlateauYieldsOnePeak ==
    pk_pc = "returned" =>
        LET w == window_size(FFT_CONFIG, Len(power_spectrum))
        IN  \A k \in 1..Len(peaks) :
              /\ \A j \in (peaks[k].idx - w)..(peaks[k].idx - 1) :
                    power_spectrum[j + 1] # peaks[k].power
              /\ \A l \in 1..Len(peaks) :
                    (l # k /\ peaks[l].power = peaks[k].power)
                        => Abs(peaks[l].idx - peaks[k].idx) > w

\* C10: at most max_peaks_per_band peaks are returned, each of power
\* >= min_peak_height.
C10_AtMostMaxPeaksAboveFloor ==
    pk_pc = "returned" =>
        /\ Len(peaks) <= FFT_CONFIG.max_peaks_per_band
        /\ \A k \in 1..Len(peaks) : peaks[k].power >= FFT_CONFIG.min_peak_height

\* more candidates were accepted than may be returned, and a bin that stands
\* out of its surroundings was left out for its height
C10_Witness ==
    /\ pk_pc = "returned"
    /\ Len(peaks) = FFT_CONFIG.max_peaks_per_band
    /\ LET n == Len(power_spectrum)
           w == window_size(FFT_CONFIG, n)
       IN  /\ Len(PeaksFrom(FFT_CONFIG, pk_args, power_spectrum, w, n - w)) > Len(peaks)
           /\ \E i \in w..(n - w - 1) :
                 /\ power_spectrum[i + 1] < FFT_CONFIG.min_peak_height
                 /\ IsLocalMax(power_spectrum, i, w)
                 /\ AboveSurrounding(FFT_CONFIG, power_spectrum, i, w)

\* The 0-based indices of the bins the search accepts, before sorting and
\* truncation.
AcceptedIndices ==
    LET n == Len(power_spectrum)
        w == window_size(FFT_CONFIG, n)
    IN  {i \in w..(n - w - 1) : Accepted(FFT_CONFIG, pk_args, power_spectrum, i)}

ReturnedIndices == {peaks[k].idx : k \in 1..Len(peaks)}

\* C11: the returned list is ordered by power descending, and no accepted
\* candidate that was left out has strictly greater power than a returned one.
C11_StrongestFirst ==
    pk_pc = "returned" =>
        /\ \A k \in 1..(Len(peaks) - 1) : peaks[k].power >= peaks[k + 1].power
        /\ \A i \in AcceptedIndices \ ReturnedIndices :
              \A k \in 1..Len(peaks) : power_spectrum[i + 1] <= peaks[k].power

\* a weaker accepted bin precedes a stronger one in the array, and a third,
\* weaker still than a returned one, was cut off
C11_Witness ==
    /\ pk_pc = "returned"
    /\ \E i, j \in AcceptedIndices :
          i < j /\ power_spectrum[i + 1] < power_spectrum[j + 1]
    /\ \E i \in AcceptedIndices \ ReturnedIndices :
          \E k \in 1..Len(peaks) : power_spectrum[i + 1] < peaks[k].power

\* The array is flat at floor except for the single bin at 0-based index b,
\* an interior bin, which holds top.
SingleBump(floor, top, b) ==
    LET n == Len(power_spectrum)
        w == window_size(FFT_CONFIG, n)
    IN  /\ w <= b /\ b < n - w
        /\ \A j \in 0..(n - 1) :
              power_spectrum[j + 1] = (IF j = b THEN top ELSE floor)

\* C12: with peak_threshold_db = 25 and min_peak_height = -40, an array flat
\* at -90 dB except for one bump of +40 dB (-50 dB) at a known interior bin
\* yields exactly one peak, within one bin of the known bin.
C12_SingleToneFound ==
    (/\ pk_pc = "returned"
     /\ FFT_CONFIG.peak_threshold_db = 25
     /\ FFT_CONFIG.min_peak_height = -40) =>
        \A b \in 0..(Len(power_spectrum) - 1) :
            SingleBump(-90, -90 + 40, b) =>
                /\ Len(peaks) = 1
                /\ Abs(peaks[1].idx - b) <= 1

\* C12 (amended): with peak_threshold_db = 25 and min_peak_height = -40, the
\* +40 dB bump on the -90 dB floor peaks at -50 dB, below min_peak_height, and
\* yields no peak at all; a bump that reaches min_peak_height or more at an
\* interior bin whose frequency lies within bandwidth // 2 of the center
\* yields exactly one peak, at that very bin.
C12_SingleToneNeedsHeight ==
    (/\ pk_pc = "returned"
     /\ FFT_CONFIG.peak_threshold_db = 25
     /\ FFT_CONFIG.min_peak_height = -40) =>
        \A b \in 0..(Len(power_spectrum) - 1) :
            /\ SingleBump(-90, -90 + 40, b) => peaks = <<>>
            /\ \A top \in {v \in PowerVals : v >= -40} :
                  (/\ SingleBump(-90, top, b)
                   /\ InBand(pk_args, Len(power_spectrum), b)) =>
                      /\ Len(peaks) = 1
                      /\ peaks[1].idx = b
                      /\ peaks[1].power = top

\* the search ran on a -90 dB floor with a single +40 dB bump
C12_Witness ==
    /\ pk_pc = "returned"
    /\ Len(power_spectrum) >= 5
    /\ \E b \in 0..(Len(power_spectrum) - 1) : SingleBump(-90, -50, b)

(***************************************************************************)
(* Claims about the device connection of the sweep drivers.                *)
(***************************************************************************)
\* C18: scan_and_stitch_spectrum never leaves the device connected when it
\* ends: on a failed connect, a failed configuration, a normal return, and an
\* exception raised while preparing, sweeping or post-processing.
C18_SweepAlwaysDisconnects ==
    (sw_variant = "scan_and_stitch_spectrum" /\ Terminal) => ~is_connected

\* the sweep had connected and tuned, and an exception ended it
C18_Witness ==
    /\ sw_variant = "scan_and_stitch_spectrum"
    /\ sw_pc = "raised"
    /\ tuned # <<>>
    /\ ~is_connected

\* C19: no step of scan_and_stitch_spectrum_with_connection changes the
\* connection state of the device it was given.
C19_WithConnectionKeepsConnection ==
    [][sw_variant = "scan_and_stitch_spectrum_with_connection"
          => is_connected' = is_connected]_vars

\* the driver swallowed an exception of the sweep and the device it was given
\* is still connected
C19_Witness ==
    /\ sw_variant = "scan_and_stitch_spectrum_with_connection"
    /\ sw_pc = "returned"
    /\ sw_result.log = "Error in spectrum scan"
    /\ tuned # <<>>
    /\ is_connected

\* C20: a sweep in which every capture failed returns two zero-length arrays
\* and raises nothing, in both drivers.
C20_AllFailedGivesEmpty ==
    (/\ ValidSweep /\ Terminal /\ ~DeviceRefused
     /\ \A k \in 1..Len(captured) : CaptureFailed(captured[k])) =>
        /\ sw_pc = "returned"
        /\ sw_result.kind = "arrays"
        /\ sw_result.freqs = <<>> /\ sw_result.psd = <<>>

(***************************************************************************)
(* Claims about spectral estimation and smoothing.                         *)
(***************************************************************************)
\* C13: for a non-empty sample sequence the estimator returns frequency and
\* PSD arrays of exactly fft_size elements, computed from the first fft_size
\* samples of a longer input and from a shorter input padded with zeros at
\* the tail, in the sweep path and in the live path.
C13_EstimateFitsFftSize ==
    (est_pc \in {"returned", "raised"} /\ iq_samples # <<>>) =>
        /\ est_pc = "returned"
        /\ Len(est_result.frequencies) = est_args.fft_size
        /\ est_result.psd_bins = est_args.fft_size
        /\ Len(iq_buffer) = est_args.fft_size
        /\ \A j \in 1..est_args.fft_size :
              iq_buffer[j] = (IF j <= Len(iq_samples) THEN iq_samples[j] ELSE 0)

\* C14: when the box filter of size 5 is applied, the first and last
\* kernel_size // 2 bins keep their input values and every other bin is the
\* mean of its kernel_size neighbours.
C14_SmoothingKeepsEdges ==
    (sm_pc = "returned" /\ Len(sm_psd) > 2 * 5) =>
        \A m \in 1..Len(sm_psd) :
            IF m <= 5 \div 2 \/ m > Len(sm_psd) - 5 \div 2
            THEN sm_out[m] = sm_psd[m]
            ELSE RatEq(RatMulInt(5, sm_out[m]),
                       RatSum(SubSeq(sm_psd, m - 2, m + 2)))

\* C15: the curve returned has the length of the input, and is the input
\* itself whenever that is no longer than 2 * kernel_size.
C15_SmoothingKeepsLength ==
    sm_pc = "returned" =>
        /\ Len(sm_out) = Len(sm_psd)
        /\ Len(sm_psd) <= 2 * 5 => sm_out = sm_psd

\* the longest curve that is not filtered, with unequal bins
C15_Witness ==
    /\ sm_pc = "returned"
    /\ Len(sm_psd) = 2 * 5
    /\ \E j \in 1..(Len(sm_psd) - 1) : sm_psd[j] # sm_psd[j + 1]

(***************************************************************************)
(* Claims about the streaming server.                                      *)
(***************************************************************************)
\* C16: whenever streaming is enabled and a subscriber is connected, a
\* streaming task is running or has been started; and when the last
\* subscriber detaches, the task is cancelled.
C16_TaskBoundToSubscribers ==
    [][/\ (streaming_enabled' /\ active_connections' # <<>>) =>
              (streaming_task' \in {"start", "sleep", "send"})
       /\ (/\ active_connections # <<>> /\ active_connections' = <<>>
           /\ sockets' # sockets
           /\ streaming_task \in {"start", "sleep", "send"}) => cancel_requested'
      ]_vars

\* C17: once toggle_streaming(streaming=false) has returned and until the
\* next toggle, streaming_enabled is false, pluto_sdr and spectrum_processor
\* are None, and no frame is delivered.
C17_ToggleOffStopsEverything ==
    [][last_toggle' = "off" =>
          /\ ~streaming_enabled'
          /\ pluto_sdr' = "None"
          /\ spectrum_processor' = "None"
          /\ last_toggle = "off" => frame_parity' = frame_parity
      ]_vars

(***************************************************************************)
(* Further claims about stitching and the sweep drivers.                   *)
(***************************************************************************)
\* C25: for a non-empty list of equal-length segments the stitched output is
\* at least as long as the largest segment and at most as long as all
\* segments together, and its frequency and power arrays are equally long.
C25_StitchedLengthBounds ==
    (st_pc = "returned" /\ segments # <<>>) =>
        /\ \A i \in 1..Len(segments) : Len(current_freqs) >= Len(segments[i])
        /\ Len(current_freqs) <= SumSeq([i \in 1..Len(segments) |-> Len(segments[i])])
        /\ Len(current_freqs) = Len(current_psd)

\* three overlapping segments were stitched into fewer bins than two of them hold
C25_Witness ==
    /\ st_pc = "returned"
    /\ Len(segments) = 3
    /\ Len(current_freqs) > Len(segments[1])
    /\ Len(current_freqs) < 2 * Len(segments[1])

\* C30: for every scan_config the capture loop runs num_steps times, writes
\* no row past the num_steps pre-allocated ones, and every row handed to gain
\* correction and stitching was written by a capture of the sweep.
C30_EveryRowWasCaptured ==
    /\ (sw_variant \in SweepVariants /\ sw_pc # "call") => sw_i <= Len(arrays_segments)
    /\ (/\ sw_variant \in SweepVariants /\ sw_pc = "returned"
        /\ ~DeviceRefused /\ sw_result.log = "") =>
            /\ sw_i = num_steps
            /\ Len(captured) = num_steps

(***************************************************************************)
(* Claims about the distance formula.                                      *)
(***************************************************************************)
\* C21: the distance d returned satisfies peak_rssi = rssi_ref - 20*log10(d),
\* that is d = 10 ** ((rssi_ref - peak_rssi) / 20): a peak 20 dB below the
\* reference gives d = 10, and a peak below the reference never gives a
\* distance under that of the reference level itself.
C21_DistanceInvertsPathLoss ==
    ds_pc = "returned" =>
        /\ distance.d # 0
        /\ (rssi_ref - peak_rssi >= 0) =>
              distance.n = distance.d * 10 ^ ((rssi_ref - peak_rssi) \div 20)
        /\ (rssi_ref - peak_rssi < 0) =>
              distance.d = distance.n * 10 ^ ((peak_rssi - rssi_ref) \div 20)
        /\ (peak_rssi = rssi_ref - 20) => (distance.n = 10 * distance.d)

\* C26: for every rssi_ref, the distance computed for a peak power equal to
\* rssi_ref is exactly 1.0.
C26_DistanceAtReferenceIsOne ==
    (ds_pc = "returned" /\ peak_rssi = rssi_ref) => (distance.n = 1 /\ distance.d = 1)

\* the streaming task computed the distance of a peak at a reference level
\* other than the level the model starts from
C26_Witness ==
    /\ ds_pc = "returned" /\ ds_path = "spectrum_streaming_task"
    /\ peak_rssi = rssi_ref /\ rssi_ref = -60

(***************************************************************************)
(* Further claims about spectral estimation.                               *)
(***************************************************************************)
\* C22: spectral estimation called with an empty sample sequence fails with
\* an error; it never returns a spectrum for such an input.
C22_EmptyInputIsRejected ==
    (iq_samples = <<>> /\ est_pc # "call") =>
        /\ est_pc = "raised"
        /\ est_result.psd_bins = 0

\* C29: a segment returned for a center frequency was computed from samples
\* captured while the receiver was tuned to that center frequency.
C29_SegmentCapturedAtItsCenter ==
    (est_path = "sweep" /\ est_pc = "returned") =>
        /\ est_result.frequencies # <<>>
        /\ captured_at = est_args.center_freq

(***************************************************************************)
(* Claims about PlutoSDR.                                                  *)
(***************************************************************************)
\* The value a guarded method returns on a device that is not connected.
FailureValue(op) ==
    IF op \in {"set_configs", "set_frequency"} THEN Ret("False", 0) ELSE Ret("None", 0)

\* C24: every PlutoSDR operation invoked while the device is not connected
\* returns its failure value (False for set_configs and set_frequency, None
\* for capture_samples, get_sample_rate and get_rx_frequency), leaves the
\* handle and is_connected as they were; and is_connected always implies that
\* the handle is not None.
C24_NotConnectedFailsUntouched ==
    /\ [][ (/\ ~is_connected \/ sdr.none
            /\ pl_op' \in {"set_configs", "set_frequency", "capture_samples",
                           "get_sample_rate", "get_rx_frequency"})
           => (/\ pl_ret' = FailureValue(pl_op')
               /\ sdr' = sdr
               /\ is_connected' = is_connected) ]_vars
    /\ [](is_connected => ~sdr.none)

\* set_frequency was refused after a failed reconnect, the handle of the
\* earlier connection still in place
C24_Witness ==
    /\ ~is_connected /\ ~sdr.none
    /\ pl_op = "set_frequency" /\ pl_ret = Ret("False", 0)

(***************************************************************************)
(* Further claims about the streaming server.                              *)
(***************************************************************************)
\* C23: a cancellation request (toggle off, or the last subscriber detaching)
\* is observed before the next capture starts: the task never begins a
\* capture after cancel() was called on it.
C23_NoCaptureAfterCancel ==
    [][ (streaming_task \in {"start", "sleep"} /\ streaming_task' = "send")
        => ~cancel_seen ]_vars

\* C27: a subscriber leaves active_connections only when it has disconnected
\* or a send to it has really failed; cancelling the task while it awaits a
\* send never removes a subscriber that is still connected.
C27_OnlyDisconnectedAreRemoved ==
    [][ \A ws \in Sockets :
          (ws \in Range(active_connections) /\ ws \notin Range(active_connections'))
              => sockets'[ws] = "closed" ]_vars

\* C28: at most one spectrum_streaming_task is alive (created and not yet
\* finished) at any time, a task whose cancel is requested but not delivered
\* included.
C28_AtMostOneTaskAlive ==
    /\ tasks_alive <= 1
    /\ TaskAlive <=> tasks_alive = 1

\* streaming was switched on again with a subscriber attached while the task
\* cancelled by the switch-off had not yet been resumed
C28_Witness ==
    /\ streaming_enabled /\ last_toggle = "on"
    /\ active_connections # <<>>
    /\ TaskAlive /\ cancel_requested
    /\ tasks_alive = 1

(***************************************************************************)
(* Claims about the device connection and the capture of the streaming     *)
(* task.                                                                   *)
(***************************************************************************)
\* C31: the server holds at most one open PlutoSDR connection at any time.
C31_AtMostOneOpenDevice ==
    /\ open_devices <= 1
    /\ (pluto_sdr = "None") => (open_devices = 0)

\* C32: an iteration of the streaming task whose capture or FFT fails sends
\* no frame and leaves the task alive, waiting inside its loop.
C32_FailedIterationKeepsTask ==
    [][ (last_capture'.parity # last_capture.parity /\ last_capture'.result = "failed")
        => (/\ streaming_task' = "sleep"
            /\ tasks_alive' = tasks_alive
            /\ frame_parity' = frame_parity
            /\ send_list' = <<>>
            /\ active_connections' = active_connections) ]_vars

\* an iteration has just failed with a subscriber attached and streaming
\* enabled: the task sleeps inside its loop
C32_Witness ==
    /\ last_capture.result = "failed"
    /\ streaming_task = "sleep" /\ tasks_alive = 1
    /\ active_connections # <<>> /\ streaming_enabled
    /\ ~cancel_requested

\* C33: the streaming task captures and processes only while pluto_sdr and
\* spectrum_processor are set and streaming is enabled, under every
\* interleaving with toggle_streaming.
C33_CaptureOnlyOnLiveDevice ==
    [][ (last_capture'.parity # last_capture.parity)
        => (/\ pluto_sdr # "None" /\ pluto_sdr' # "None"
            /\ spectrum_processor # "None" /\ spectrum_processor' # "None"
            /\ streaming_enabled /\ streaming_enabled'
            /\ open_devices >= 1) ]_vars

\* the task captured after streaming was switched off and on again under it
C33_Witness ==
    /\ cancel_seen /\ last_toggle = "on" /\ active_connections # <<>>
    /\ streaming_task = "send" /\ last_capture.result = "ok"
    /\ ~cancel_requested

(***************************************************************************)
(* A further claim about peak detection.                                   *)
(***************************************************************************)
\* C34: for every spectrum length, every window size w >= 1 and every
\* candidate index i in [w, len - w), the clipped flanking set
\* [max(0, i-2w), i-w) union [i+w, min(len, i+2w)) holds at least one bin and
\* only indices of the spectrum.
C34_FlanksNeverEmpty ==
    LET n == Len(power_spectrum)
        w == window_size(FFT_CONFIG, n)
    IN  (pk_pc # "idle" /\ w >= 1) =>
            \A i \in w..(n - w - 1) :
                /\ FlankIndices(n, i, w) # {}
                /\ FlankIndices(n, i, w) \subseteq 0..(n - 1)

\* a peak search ran over a spectrum whose first candidate, i = w = 2, has an
\* empty left flank and whose last candidate has a right flank clipped at the
\* end of the array
C34_Witness ==
    /\ pk_pc = "returned" /\ Len(power_spectrum) = 6
    /\ window_size(FFT_CONFIG, 6) = 2
    /\ FlankIndices(6, 2, 2) = {4, 5}
    /\ FlankIndices(6, 3, 2) = {0, 5}

(***************************************************************************)
(* Claims about enhanced_frequency_scan and the rows of a sweep.           *)
(***************************************************************************)
\* C35: enhanced_frequency_scan records exactly one entry for each center
\* frequency start, start+step, ... <= end, visited in ascending order; a
\* step whose capture returns None is recorded with an empty peak list and the
\* scan goes on to the next frequency instead of aborting.
C35_EveryCenterRecorded ==
    (sw_variant = "enhanced_frequency_scan" /\ sw_pc \in {"loop", "returned"}
     /\ is_connected) =>
        /\ scan_results = Range(tuned)
        /\ Len(captured) = Len(tuned)
        /\ \A k \in 1..Len(captured) :
              /\ captured[k].center_freq = tuned[k]
              /\ captured[k].samples.none => captured[k].recorded = "empty"
        /\ scan_config.step_frequency > 0 =>
              /\ IsPrefix(tuned, ExpectedCenters(scan_config))
              /\ sw_pc = "loop" => current_freq =
                    scan_config.start_frequency + Len(tuned) * scan_config.step_frequency
              /\ sw_pc = "returned" =>
                    /\ sw_result.log = ""
                    /\ sw_result.keys = scan_results
                    /\ scan_config.start_frequency <= scan_config.end_frequency =>
                          tuned = ExpectedCenters(scan_config)

\* a scan over three center frequencies returned after the capture at the
\* second one had failed
C35_Witness ==
    /\ sw_variant = "enhanced_frequency_scan" /\ sw_pc = "returned"
    /\ scan_config.step_frequency = 1
    /\ Len(captured) = 3
    /\ captured[2].samples.none /\ ~captured[3].samples.none
    /\ scan_results = {scan_config.start_frequency, scan_config.start_frequency + 1,
                       scan_config.start_frequency + 2}

\* C36: the frequency row and the PSD row stored at sweep step i keep the
\* values stored at step i through all later steps and through gain
\* correction, stitching and smoothing.
C36_StoredRowsNeverChange ==
    [][ (sw_variant \in SweepVariants /\ sw_pc = "loop") =>
          /\ Len(arrays_segments') = Len(arrays_segments)
          /\ Len(arrays_freq_arrays') = Len(arrays_freq_arrays)
          /\ \A k \in 1..Min2(sw_i, Len(arrays_segments)) :
                /\ arrays_segments'[k] = arrays_segments[k]
                /\ arrays_freq_arrays'[k] = arrays_freq_arrays[k]
      ]_vars

\* a sweep of two steps with different PSD rows was stitched and returned
C36_Witness ==
    /\ sw_variant \in SweepVariants /\ sw_pc = "returned"
    /\ sw_result.kind = "arrays" /\ sw_i = 2
    /\ arrays_segments[1] # arrays_segments[2]
    /\ arrays_freq_arrays[1] # arrays_freq_arrays[2]

=============================================================================
